---- MODULE Spec2Model ----
(***************************************************************************)
(* Model of serverless-plugin-lambda-insights (class AddLambdaInsights).   *)
(* The hook addLambdaInsights reads the custom block, then                 *)
(* addLambdaInsightsToFunctions walks service.functions in key order,      *)
(* resolving a layer ARN (static table or remote getLayerVersionByArn),    *)
(* appending it to enabled functions and finally attaching the managed     *)
(* policy.  Each await is a step of the state machine.                     *)
(***************************************************************************)
EXTENDS Integers, Sequences, FiniteSets, TLC

VARIABLES
    service,              \* the descriptor this.service (mutated in place)
    region,               \* this.provider.getRegion()
    before,               \* the descriptor as it was when the hook was invoked
    pc,                   \* position of the hook / async function
    idx,                  \* position of the for..of loop in Object.keys(functions)
    globalLambdaInsights, \* argument of addLambdaInsightsToFunctions
    attachPolicy,         \* argument of addLambdaInsightsToFunctions
    layerVersion,         \* argument of addLambdaInsightsToFunctions
    policyToggle,         \* local of addLambdaInsightsToFunctions
    layerARN,             \* local of the loop body
    requests,             \* Arn of every provider.request issued, in order
    caught,               \* the failure caught from provider.request, if any
    err,                  \* the error the hook threw / rejected with
    runs,                 \* how many earlier invocations of the hook completed
    original              \* the descriptor before the first invocation

vars == <<service, region, before, pc, idx, globalLambdaInsights, attachPolicy,
          layerVersion, policyToggle, layerARN, requests, caught, err,
          runs, original>>

----------------------------------------------------------------------------
(* Bounds *)

MaxFunctions == 2
MaxRuns == 2

----------------------------------------------------------------------------
(* JavaScript values, by type and by the number that decides truthiness    *)
(* (a boolean is 0/1, a string is kept by its length).                     *)

Absent == [type |-> "absent", n |-> 0]
Null == [type |-> "null", n |-> 0]
Bool(b) == [type |-> "boolean", n |-> IF b THEN 1 ELSE 0]
Num(k) == [type |-> "number", n |-> k]
Str(len) == [type |-> "string", n |-> len]

TypeOf(v) ==
    CASE v.type = "absent" -> "undefined"
      [] v.type = "null" -> "object"
      [] OTHER -> v.type

Truthy(v) == v.type \in {"boolean", "number", "string"} /\ v.n # 0

HasOwnProperty(v) == v.type # "absent"

\* a || b
Or(a, b) == IF Truthy(a) THEN a ELSE b

----------------------------------------------------------------------------
(* ARNs and the static tables *)

Arn(r, ext, v) == [region |-> r, ext |-> ext, version |-> v]
UndefinedArn == Arn("", "undefined", 0)

lambdaInsightsManagedPolicy == "arn:aws:iam::aws:policy/CloudWatchLambdaInsightsExecutionRolePolicy"

layerVersions ==
    [r \in {"us-east-1"} |-> Arn(r, "LambdaInsightsExtension", 14)]

layerVersionsArm64 ==
    [r \in {"us-east-1"} |-> Arn(r, "LambdaInsightsExtension-Arm64", 2)]

\* table[region] of a JavaScript object: undefined when the key is missing
Lookup(table, r) == IF r \in DOMAIN table THEN table[r] ELSE UndefinedArn

----------------------------------------------------------------------------
(* Errors *)

NoError == [kind |-> "none", code |-> "", version |-> 0, region |-> ""]
InvalidToggle ==
    [kind |-> "InvalidConfigType", code |-> "toggle", version |-> 0, region |-> ""]
InvalidVersion ==
    [kind |-> "InvalidConfigType", code |-> "version", version |-> 0, region |-> ""]
UnknownRegion(r) ==
    [kind |-> "UnknownRegion", code |-> "", version |-> 0, region |-> r]
LayerVersionNotFound(v, r) ==
    [kind |-> "LayerVersionNotFound", code |-> "", version |-> v, region |-> r]
RemoteFailure(code) ==
    [kind |-> "RemoteFailure", code |-> code, version |-> 0, region |-> ""]
KeysTypeError ==
    [kind |-> "TypeError", code |-> "", version |-> 0, region |-> ""]

RemoteCodes == {"AccessDeniedException", "ThrottlingException"}

----------------------------------------------------------------------------
(* Pure parts of the code *)

\* checkLambdaInsightsType: TRUE when the value is returned, FALSE when it throws
checkLambdaInsightsType(value) == TypeOf(value) = "boolean"

\* checkLambdaInsightsVersion: TRUE when the value is returned, FALSE when it throws
checkLambdaInsightsVersion(value) == TypeOf(value) = "number"

\* an architecture string is truthy unless it is undefined or empty
ArchTruthy(a) == a \notin {"undefined", ""}

\* variant: a deployment-wide arm64 also applies to a function declaring x86_64
IsArm64_AnyLevel(architecture, providerArchitecture) ==
    architecture = "arm64" \/ providerArchitecture = "arm64"

IsArm64(architecture, providerArchitecture) ==
    IF ArchTruthy(architecture)
    THEN architecture = "arm64"
    ELSE providerArchitecture = "arm64"

\* the Arn parameter of getLayerVersionByArn
RequestArn(isArm64, r, version) ==
    IF isArm64
    THEN Arn(r, "LambdaInsightsExtension-Arm64", version)
    ELSE Arn(r, "LambdaInsightsExtension", version)

\* variant: every caught failure is reported as a missing layer version
MapRemoteError_WrapAll(e, version, r) == LayerVersionNotFound(version, r)

\* the catch block of generateLayerARN: what is thrown for a caught failure
MapRemoteError(e, version, r) ==
    IF e.code = "AccessDeniedException"
    THEN LayerVersionNotFound(version, r)
    ELSE e

\* variant: the x86_64 table is consulted for every architecture
StaticArn_OneTable(isArm64, r) == Lookup(layerVersions, r)

StaticArn(isArm64, r) ==
    IF isArm64 THEN Lookup(layerVersionsArm64, r) ELSE Lookup(layerVersions, r)

\* the value of localLambdaInsights once the type check has passed
LocalLambdaInsights(fn) ==
    IF HasOwnProperty(fn.lambdaInsights) THEN fn.lambdaInsights ELSE Null

\* variant: a local false does not short-circuit
Skip_NoLocalFalse(localLambdaInsights, globalLI) ==
    localLambdaInsights = Null /\ globalLI = Null

\* the condition of the `continue`
Skip(localLambdaInsights, globalLI) ==
    \/ localLambdaInsights = Bool(FALSE)
    \/ (localLambdaInsights = Null /\ globalLI = Null)

FnLambdaInsights(localLambdaInsights, globalLI) ==
    Or(localLambdaInsights, globalLI)

\* variant: an identifier already in the list is not added again
AttachLayer_IfMissing(fn, arn) ==
    IF fn.hasLayers /\ \E k \in DOMAIN fn.layers : fn.layers[k] = arn
    THEN fn
    ELSE [fn EXCEPT !.hasLayers = TRUE,
                    !.layers = Append(IF fn.hasLayers THEN fn.layers ELSE <<>>, arn)]

\* variant: the identifier is put in front of the list
AttachLayer_Prepend(fn, arn) ==
    [fn EXCEPT !.hasLayers = TRUE,
               !.layers = <<arn>> \o (IF fn.hasLayers THEN fn.layers ELSE <<>>)]

\* variant: the list is replaced instead of appended to
AttachLayer_Overwrite(fn, arn) ==
    [fn EXCEPT !.hasLayers = TRUE, !.layers = <<arn>>]

\* fn.layers = fn.layers || []; fn.layers.push(layerARN)
AttachLayer(fn, arn) ==
    [fn EXCEPT !.hasLayers = TRUE,
               !.layers = Append(IF fn.hasLayers THEN fn.layers ELSE <<>>, arn)]

\* variant: the policy does not depend on any function being enabled
ShouldAttachPolicy_NoToggle(attach, toggle) == Truthy(attach)

ShouldAttachPolicy(attach, toggle) == Truthy(attach) /\ toggle

\* iamManagedPolicies = iamManagedPolicies || []; push(lambdaInsightsManagedPolicy)
AttachManagedPolicy(svc) ==
    [svc EXCEPT !.hasPolicies = TRUE,
                !.iamManagedPolicies =
                    Append(IF svc.hasPolicies THEN svc.iamManagedPolicies ELSE <<>>,
                           lambdaInsightsManagedPolicy)]

\* variant: the error is recorded and the loop goes on with the next function
Throw_LogAndContinue(e, i) == [pc |-> "loop", idx |-> i + 1, err |-> e]

\* the control state after an error is thrown inside the loop: the catch of
\* addLambdaInsightsToFunctions rethrows and the promise is rejected
Throw(e, i) == [pc |-> "failed", idx |-> i, err |-> e]

\* the three conditional expressions of addLambdaInsights, in order
GlobalThrows(c) ==
    c.present /\ Truthy(c.defaultLambdaInsights)
              /\ ~checkLambdaInsightsType(c.defaultLambdaInsights)
GlobalValue(c) ==
    IF c.present /\ Truthy(c.defaultLambdaInsights)
    THEN c.defaultLambdaInsights ELSE Null

AttachThrows(c) ==
    c.present /\ HasOwnProperty(c.attachPolicy)
              /\ ~checkLambdaInsightsType(c.attachPolicy)
AttachValue(c) ==
    IF c.present /\ HasOwnProperty(c.attachPolicy)
    THEN c.attachPolicy ELSE Bool(TRUE)

VersionThrows(c) ==
    c.present /\ Truthy(c.lambdaInsightsVersion)
              /\ ~checkLambdaInsightsVersion(c.lambdaInsightsVersion)
VersionValue(c) ==
    IF c.present /\ Truthy(c.lambdaInsightsVersion)
    THEN c.lambdaInsightsVersion ELSE Null

NumFunctions == Len(service.functions)

----------------------------------------------------------------------------
(* Actions *)

\* addLambdaInsights up to the first await of addLambdaInsightsToFunctions
AddLambdaInsights ==
    /\ pc = "idle"
    /\ before' = service
    /\ LET c == service.custom IN
       IF GlobalThrows(c) \/ AttachThrows(c) \/ VersionThrows(c)
       THEN /\ pc' = "failed"
            /\ err' = IF GlobalThrows(c) \/ AttachThrows(c)
                      THEN InvalidToggle ELSE InvalidVersion
            /\ UNCHANGED <<idx, globalLambdaInsights, attachPolicy,
                           layerVersion, policyToggle>>
       ELSE /\ globalLambdaInsights' = GlobalValue(c)
            /\ attachPolicy' = AttachValue(c)
            /\ layerVersion' = VersionValue(c)
            /\ policyToggle' = FALSE
            /\ idx' = 1
            /\ IF TypeOf(service.functionsValue) # "object"
               THEN pc' = "done" /\ err' = NoError
               ELSE IF service.functionsValue = Null
               THEN pc' = "failed" /\ err' = KeysTypeError
               ELSE pc' = "loop" /\ err' = NoError
    /\ UNCHANGED <<service, region, layerARN, requests, caught, runs, original>>

\* generateLayerARN without a version: the static table
GenerateLayerARN ==
    /\ pc = "loop"
    /\ idx <= NumFunctions
    /\ ~Truthy(layerVersion)
    /\ LET fn == service.functions[idx]
           arn == StaticArn(IsArm64(fn.architecture, service.architecture), region)
       IN IF arn = UndefinedArn
          THEN LET t == Throw(UnknownRegion(region), idx) IN
               /\ pc' = t.pc /\ idx' = t.idx /\ err' = t.err
               /\ UNCHANGED layerARN
          ELSE /\ layerARN' = arn
               /\ pc' = "decide"
               /\ UNCHANGED <<idx, err>>
    /\ UNCHANGED <<service, region, before, globalLambdaInsights, attachPolicy,
                   layerVersion, policyToggle, requests, caught, runs, original>>

\* generateLayerARN with a version: provider.request is issued and awaited
RequestLayerVersion ==
    /\ pc = "loop"
    /\ idx <= NumFunctions
    /\ Truthy(layerVersion)
    /\ LET fn == service.functions[idx] IN
       requests' = Append(requests,
                          RequestArn(IsArm64(fn.architecture, service.architecture),
                                     region, layerVersion.n))
    /\ pc' = "await"
    /\ UNCHANGED <<service, region, before, idx, globalLambdaInsights, attachPolicy,
                   layerVersion, policyToggle, layerARN, caught, err, runs, original>>

\* the request resolves: layerVersionInfo.LayerVersionArn is the ARN asked for
ReplyOk ==
    /\ pc = "await"
    /\ layerARN' = requests[Len(requests)]
    /\ pc' = "decide"
    /\ UNCHANGED <<service, region, before, idx, globalLambdaInsights, attachPolicy,
                   layerVersion, policyToggle, requests, caught, err, runs, original>>

\* the request rejects with some error code
ReplyFail ==
    /\ pc = "await"
    /\ \E code \in RemoteCodes :
         /\ caught' = RemoteFailure(code)
         /\ LET t == Throw(MapRemoteError(RemoteFailure(code), layerVersion.n, region),
                           idx)
            IN pc' = t.pc /\ idx' = t.idx /\ err' = t.err
    /\ UNCHANGED <<service, region, before, globalLambdaInsights, attachPolicy,
                   layerVersion, policyToggle, layerARN, requests, runs, original>>

\* the rest of the loop body, after generateLayerARN returned
Decide ==
    /\ pc = "decide"
    /\ LET fn == service.functions[idx] IN
       IF HasOwnProperty(fn.lambdaInsights) /\ ~checkLambdaInsightsType(fn.lambdaInsights)
       THEN LET t == Throw(InvalidToggle, idx) IN
            /\ pc' = t.pc /\ idx' = t.idx /\ err' = t.err
            /\ UNCHANGED <<service, policyToggle>>
       ELSE /\ pc' = "loop"
            /\ idx' = idx + 1
            /\ UNCHANGED err
            /\ IF /\ ~Skip(LocalLambdaInsights(fn), globalLambdaInsights)
                  /\ Truthy(FnLambdaInsights(LocalLambdaInsights(fn), globalLambdaInsights))
               THEN /\ service' = [service EXCEPT
                                     !.functions[idx] = AttachLayer(fn, layerARN)]
                    /\ policyToggle' = TRUE
               ELSE UNCHANGED <<service, policyToggle>>
    /\ UNCHANGED <<region, before, globalLambdaInsights, attachPolicy,
                   layerVersion, layerARN, requests, caught, runs, original>>

\* after the loop: the managed policy, then return
Finish ==
    /\ pc = "loop"
    /\ idx > NumFunctions
    /\ service' = IF ShouldAttachPolicy(attachPolicy, policyToggle)
                  THEN AttachManagedPolicy(service)
                  ELSE service
    /\ pc' = "done"
    /\ UNCHANGED <<region, before, idx, globalLambdaInsights, attachPolicy,
                   layerVersion, policyToggle, layerARN, requests, caught, err,
                   runs, original>>

Next ==
    \/ AddLambdaInsights
    \/ GenerateLayerARN
    \/ RequestLayerVersion
    \/ ReplyOk
    \/ ReplyFail
    \/ Decide
    \/ Finish

\* the hook fires again on the same plugin instance and descriptor
HookAgain ==
    /\ pc = "done"
    /\ runs + 1 < MaxRuns
    /\ runs' = runs + 1
    /\ pc' = "idle"
    /\ before' = service
    /\ idx' = 1
    /\ globalLambdaInsights' = Null
    /\ attachPolicy' = Null
    /\ layerVersion' = Null
    /\ policyToggle' = FALSE
    /\ layerARN' = UndefinedArn
    /\ requests' = <<>>
    /\ UNCHANGED <<service, region, caught, err, original>>

NextRepeat ==
    \/ Next
    \/ HookAgain

----------------------------------------------------------------------------
(* Initial states: the descriptors the hook is invoked on *)

Regions == {"us-east-1", "not-a-region-1"}
Architectures == {"undefined", "x86_64", "arm64"}
OtherLayer == Arn("us-east-1", "OtherLayer", 1)
OtherPolicy == "arn:aws:iam::aws:policy/Other"

Toggles == {Absent, Bool(TRUE), Bool(FALSE)}
BadToggles == {Num(0), Num(1), Str(0), Str(3), Null}
BadVersions == {Str(0), Str(3), Bool(TRUE), Bool(FALSE), Null}

FunctionSpecs(toggles, prepopulated) ==
    [lambdaInsights : toggles,
     architecture : Architectures,
     hasLayers : {prepopulated},
     layers : {IF prepopulated THEN <<OtherLayer>> ELSE <<>>}]

FunctionLists(specs, n) == UNION {[1..k -> specs] : k \in 0..n}

Descriptor(custom, arch, fv, fns, prepopulated) ==
    [custom |-> custom,
     architecture |-> arch,
     functionsValue |-> fv,
     functions |-> fns,
     hasPolicies |-> prepopulated,
     iamManagedPolicies |-> IF prepopulated THEN <<OtherPolicy>> ELSE <<>>]

\* an object
Object == [type |-> "object", n |-> 1]

InitLocals ==
    /\ before = service
    /\ pc = "idle"
    /\ idx = 1
    /\ globalLambdaInsights = Null
    /\ attachPolicy = Null
    /\ layerVersion = Null
    /\ policyToggle = FALSE
    /\ layerARN = UndefinedArn
    /\ requests = <<>>
    /\ caught = NoError
    /\ err = NoError
    /\ runs = 0
    /\ original = service

\* well-typed custom settings, up to MaxFunctions functions
Init ==
    /\ region \in Regions
    /\ \E prepopulated \in BOOLEAN :
       \E custom \in [present : {TRUE},
                      defaultLambdaInsights : Toggles,
                      attachPolicy : Toggles,
                      lambdaInsightsVersion : {Absent, Num(12)}] :
       \E arch \in Architectures :
       \E fns \in FunctionLists(
                    FunctionSpecs(Toggles \cup {Str(3)}, prepopulated), MaxFunctions) :
         service = Descriptor(custom, arch, Object, fns, prepopulated)
    /\ InitLocals

Spec == Init /\ [][Next]_vars

\* any value in the custom block and in the function's toggle, at most one function
InitConfig ==
    /\ region \in Regions
    /\ \E custom \in [present : BOOLEAN,
                      defaultLambdaInsights : Toggles \cup BadToggles,
                      attachPolicy : Toggles \cup {Num(0), Str(3)},
                      lambdaInsightsVersion : {Absent, Num(0), Num(12)} \cup BadVersions] :
       \E fv \in {Object, Absent, Null, Str(3), Num(1)} :
       \E fns \in FunctionLists(
                    [lambdaInsights : Toggles \cup {Num(0), Str(3)},
                     architecture : {"undefined"},
                     hasLayers : {FALSE},
                     layers : {<<>>}], 1) :
         /\ (fv # Object => fns = <<>>)
         /\ (~custom.present =>
                custom = [present |-> FALSE, defaultLambdaInsights |-> Absent,
                          attachPolicy |-> Absent, lambdaInsightsVersion |-> Absent])
         /\ service = Descriptor(custom, "undefined", fv, fns, FALSE)
    /\ InitLocals

SpecConfig == InitConfig /\ [][Next]_vars

\* well-typed custom settings, the hook invoked up to MaxRuns times
InitRepeat ==
    /\ region \in Regions
    /\ \E prepopulated \in BOOLEAN :
       \E custom \in [present : {TRUE},
                      defaultLambdaInsights : Toggles,
                      attachPolicy : {Absent, Bool(FALSE)},
                      lambdaInsightsVersion : {Absent, Num(12)}] :
       \E arch \in {"undefined", "arm64"} :
       \E fns \in FunctionLists(
                    [lambdaInsights : Toggles,
                     architecture : {"undefined", "arm64"},
                     hasLayers : {prepopulated},
                     layers : {IF prepopulated THEN <<OtherLayer>> ELSE <<>>}],
                    MaxFunctions) :
         service = Descriptor(custom, arch, Object, fns, prepopulated)
    /\ InitLocals

SpecRepeat == InitRepeat /\ [][NextRepeat]_vars

----------------------------------------------------------------------------
(* Vocabulary of the properties, in terms of the descriptor only *)

Custom == before.custom

\* custom.lambdaInsights.defaultLambdaInsights is true
DefaultIsTrue == Custom.present /\ Custom.defaultLambdaInsights = Bool(TRUE)

\* the function's toggle is true, or unset while the global default is true
EnabledFn(f) ==
    \/ f.lambdaInsights = Bool(TRUE)
    \/ (f.lambdaInsights = Absent /\ DefaultIsTrue)

EnabledSet == {i \in 1..Len(before.functions) : EnabledFn(before.functions[i])}

\* attachPolicy is true or unset
AttachPolicyOn ==
    ~Custom.present \/ Custom.attachPolicy \in {Absent, Bool(TRUE)}

\* an explicit version is set
VersionSet == Custom.present /\ TypeOf(Custom.lambdaInsightsVersion) = "number"
                             /\ Custom.lambdaInsightsVersion.n # 0

LayersOf(f) == IF f.hasLayers THEN f.layers ELSE <<>>

PoliciesOf(svc) == IF svc.hasPolicies THEN svc.iamManagedPolicies ELSE <<>>

Occurrences(seq, x) == Cardinality({k \in DOMAIN seq : seq[k] = x})

InsightsExtensions == {"LambdaInsightsExtension", "LambdaInsightsExtension-Arm64"}

\* function i gained exactly one entry, at the end of its layers
GainedOne(i) ==
    LET f0 == before.functions[i]
        f1 == service.functions[i]
    IN /\ f1.hasLayers
       /\ Len(f1.layers) = Len(LayersOf(f0)) + 1
       /\ SubSeq(f1.layers, 1, Len(LayersOf(f0))) = LayersOf(f0)
       /\ f1.layers[Len(f1.layers)].ext \in InsightsExtensions
       /\ [f1 EXCEPT !.layers = <<>>, !.hasLayers = FALSE]
            = [f0 EXCEPT !.layers = <<>>, !.hasLayers = FALSE]

Untouched(i) == service.functions[i] = before.functions[i]

PoliciesUntouched ==
    /\ service.hasPolicies = before.hasPolicies
    /\ service.iamManagedPolicies = before.iamManagedPolicies

\* the function declares arm64, or declares nothing under a deployment-wide arm64
WantsArm64(f) ==
    \/ f.architecture = "arm64"
    \/ (f.architecture = "undefined" /\ service.architecture = "arm64")

ExtensionFor(f) ==
    IF WantsArm64(f) THEN "LambdaInsightsExtension-Arm64" ELSE "LambdaInsightsExtension"

RanOverFunctions == before.functionsValue = Object

----------------------------------------------------------------------------
(* C1: after a run that completes without error, a function gains exactly  *)
(* one layer when its lambdaInsights is true, or is unset while            *)
(* defaultLambdaInsights is true; every other function gains nothing (a    *)
(* local false wins over any global default).                              *)
C1_TogglePrecedence ==
    (pc = "done" /\ RanOverFunctions) =>
        \A i \in 1..Len(before.functions) :
            IF EnabledFn(before.functions[i]) THEN GainedOne(i) ELSE Untouched(i)

C1_Witness ==
    /\ pc = "done"
    /\ DefaultIsTrue
    /\ Len(before.functions) = 2
    /\ before.functions[1].lambdaInsights = Bool(FALSE)
    /\ before.functions[2].lambdaInsights = Absent
    /\ Untouched(1)
    /\ GainedOne(2)

(* C2: starting from a policy list without the Lambda Insights policy, a   *)
(* completed run leaves exactly one occurrence of it when some function    *)
(* was enabled and attachPolicy is true or unset, and none otherwise.      *)
C2_PolicyAttachment ==
    (/\ pc = "done"
     /\ Occurrences(PoliciesOf(before), lambdaInsightsManagedPolicy) = 0) =>
        Occurrences(PoliciesOf(service), lambdaInsightsManagedPolicy) =
            IF RanOverFunctions /\ EnabledSet # {} /\ AttachPolicyOn THEN 1 ELSE 0

C2_Witness ==
    /\ pc = "done"
    /\ Cardinality(EnabledSet) = 2
    /\ Custom.attachPolicy = Absent
    /\ Occurrences(PoliciesOf(service), lambdaInsightsManagedPolicy) = 1

(* C3: every resolution uses the arm64 table or template exactly when the  *)
(* function declares arm64, or declares no architecture under a            *)
(* deployment-wide arm64; each function is resolved with its own           *)
(* architecture.                                                           *)
C3_ArchitectureResolution ==
    /\ \A k \in 1..Len(requests) :
          requests[k].ext = ExtensionFor(service.functions[k])
    /\ (pc = "decide" => layerARN.ext = ExtensionFor(service.functions[idx]))
    /\ (RanOverFunctions /\ pc \in {"loop", "decide", "done", "failed"}) =>
          \A i \in 1..Len(service.functions) :
             (i < idx /\ ~Untouched(i)) =>
                service.functions[i].layers[Len(service.functions[i].layers)].ext
                    = ExtensionFor(service.functions[i])

C3_Witness ==
    /\ pc = "decide"
    /\ idx = 2
    /\ service.architecture = "arm64"
    /\ service.functions[1].architecture = "undefined"
    /\ service.functions[2].architecture = "x86_64"
    /\ service.functions[1].hasLayers
    /\ service.functions[1].layers[Len(service.functions[1].layers)].ext
          = "LambdaInsightsExtension-Arm64"
    /\ layerARN.ext = "LambdaInsightsExtension"

(* C4: with an explicit version, each resolution issues one remote check;  *)
(* a failure with code AccessDeniedException ends the run with             *)
(* LayerVersionNotFound naming the version and the region, and a failure   *)
(* with any other code is the error the run ends with, unchanged.          *)
C4_RemoteFailureMapping ==
    /\ (VersionSet /\ pc \in {"await", "decide"}) => Len(requests) = idx
    /\ (VersionSet /\ RanOverFunctions /\ pc \in {"loop", "done"}) =>
          Len(requests) = idx - 1
    /\ (caught # NoError) =>
          /\ pc = "failed"
          /\ Len(requests) = idx
          /\ IF caught.code = "AccessDeniedException"
             THEN err = LayerVersionNotFound(Custom.lambdaInsightsVersion.n, region)
             ELSE err = caught

C4_Witness ==
    /\ pc = "failed"
    /\ idx = 2
    /\ Len(requests) = 2
    /\ caught = RemoteFailure("ThrottlingException")
    /\ err = caught

(* C5: without an explicit version no remote call is made; a resolution    *)
(* yields the entry of the region in the static table of the function's    *)
(* architecture, which is what an enabled function receives; when the      *)
(* region has no entry, a run with an enabled function ends with           *)
(* UnknownRegion naming the region.                                        *)
C5_StaticLookup ==
    ~VersionSet =>
        /\ requests = <<>>
        /\ (pc = "decide" =>
              LET table == IF WantsArm64(service.functions[idx])
                           THEN layerVersionsArm64 ELSE layerVersions
              IN region \in DOMAIN table /\ layerARN = table[region])
        /\ (pc = "done" /\ RanOverFunctions) =>
              \A i \in EnabledSet :
                 LET f == service.functions[i]
                     table == IF WantsArm64(f) THEN layerVersionsArm64 ELSE layerVersions
                 IN region \in DOMAIN table /\ f.layers[Len(f.layers)] = table[region]
        /\ (/\ pc \in {"done", "failed"}
            /\ RanOverFunctions
            /\ EnabledSet # {}
            /\ region \notin DOMAIN layerVersions
            /\ region \notin DOMAIN layerVersionsArm64) =>
              (pc = "failed" /\ err = UnknownRegion(region))

C5_Witness ==
    /\ pc = "done"
    /\ ~VersionSet
    /\ Len(service.functions) = 2
    /\ EnabledSet = {1, 2}
    /\ service.functions[1].architecture = "arm64"
    /\ service.functions[2].architecture = "x86_64"
    /\ service.functions[1].layers[Len(service.functions[1].layers)]
          = layerVersionsArm64["us-east-1"]
    /\ service.functions[2].layers[Len(service.functions[2].layers)]
          = layerVersions["us-east-1"]

(* C6: a lambdaInsightsVersion that is present and not a number makes the  *)
(* run fail with InvalidConfigType before any remote call and before any   *)
(* change to the descriptor.                                               *)
C6_VersionTypeCheck ==
    (/\ pc # "idle"
     /\ Custom.present
     /\ HasOwnProperty(Custom.lambdaInsightsVersion)
     /\ TypeOf(Custom.lambdaInsightsVersion) # "number") =>
        /\ pc = "failed"
        /\ err.kind = "InvalidConfigType"
        /\ requests = <<>>
        /\ service = before

(* C7: a toggle option (a function's lambdaInsights, defaultLambdaInsights,*)
(* attachPolicy) that is present and not a boolean makes the run fail with *)
(* InvalidConfigType; it is never taken as enabled, disabled or unset.     *)
C7_ToggleTypeCheck ==
    (/\ pc \in {"done", "failed"}
     /\ \/ (Custom.present /\ TypeOf(Custom.defaultLambdaInsights) \notin {"undefined", "boolean"})
        \/ (Custom.present /\ TypeOf(Custom.attachPolicy) \notin {"undefined", "boolean"})
        \/ \E i \in 1..Len(before.functions) :
              TypeOf(before.functions[i].lambdaInsights) \notin {"undefined", "boolean"}) =>
        (pc = "failed" /\ err.kind = "InvalidConfigType")

(* C8: a layer is resolved for a function only if the function is enabled: *)
(* with an explicit version a completed run issued as many remote checks   *)
(* as there are enabled functions, a check in flight or a resolved ARN     *)
(* belongs to an enabled function, and no run fails with UnknownRegion or  *)
(* LayerVersionNotFound on a function that is not enabled.                 *)
C8_LookupsOnlyForEnabled ==
    /\ (pc = "done" /\ RanOverFunctions) => Len(requests) =
          IF VersionSet THEN Cardinality(EnabledSet) ELSE 0
    /\ (pc \in {"await", "decide"}) => idx \in EnabledSet
    /\ (pc = "failed" /\ err.kind \in {"UnknownRegion", "LayerVersionNotFound"}) =>
          idx \in EnabledSet

(* C9: functions are processed one at a time in declaration order and the  *)
(* first error ends the run: nothing runs after it, no function declared   *)
(* after the failing one is resolved, checked or given a layer, and the    *)
(* policy list is not appended to.                                         *)
C9_FailFastState ==
    /\ (err # NoError) => pc = "failed"
    /\ Len(requests) <= idx
    /\ \A j \in 1..Len(service.functions) : j > idx => Untouched(j)
    /\ (pc = "failed") => PoliciesUntouched

C9_FailFast ==
    /\ []C9_FailFastState
    /\ [][pc # "failed" /\ idx' \in {idx, idx + 1}]_vars

C9_Witness ==
    /\ pc = "failed"
    /\ idx = 1
    /\ Len(service.functions) = 2
    /\ EnabledFn(before.functions[2])
    /\ Untouched(2)
    /\ Len(requests) = 1
    /\ PoliciesUntouched

(* C10 as stated: whenever a run ends in an error the descriptor is as it  *)
(* was before the run.                                                     *)
C10_NoPartialApplication ==
    (pc = "failed") => service = before

(* C10 amended: when a run ends in an error the policy list is unchanged   *)
(* and the failing function and those after it keep their layers, while    *)
(* each enabled function before the failing one keeps the one layer it     *)
(* gained and nothing else of the descriptor is changed.                   *)
C10_PartialApplication ==
    (pc = "failed") =>
        /\ PoliciesUntouched
        /\ [service EXCEPT !.functions = <<>>] = [before EXCEPT !.functions = <<>>]
        /\ Len(service.functions) = Len(before.functions)
        /\ \A j \in 1..Len(before.functions) :
              IF j < idx /\ EnabledFn(before.functions[j])
              THEN GainedOne(j)
              ELSE Untouched(j)

C10_Witness ==
    /\ pc = "failed"
    /\ idx = 2
    /\ before.functions[1].hasLayers
    /\ GainedOne(1)
    /\ Untouched(2)
    /\ service # before

\* every option of the custom block is unset or of its declared type
WellTypedCustom ==
    Custom.present =>
        /\ TypeOf(Custom.defaultLambdaInsights) \in {"undefined", "boolean"}
        /\ TypeOf(Custom.attachPolicy) \in {"undefined", "boolean"}
        /\ TypeOf(Custom.lambdaInsightsVersion) \in {"undefined", "number"}

(* C11: when service.functions is absent or is not a mapping (undefined,   *)
(* null, a string, a number) the run completes without error, issues no    *)
(* remote call and leaves the descriptor as it was, in every region and    *)
(* for every well-typed custom block.                                      *)
C11_NoOpWithoutFunctions ==
    (/\ pc # "idle"
     /\ before.functionsValue # Object
     /\ WellTypedCustom) =>
        /\ pc = "done"
        /\ err = NoError
        /\ requests = <<>>
        /\ service = before

\* the identifier a function receives in this region with these settings
LayerIdFor(f) ==
    IF VersionSet
    THEN Arn(region, ExtensionFor(f), Custom.lambdaInsightsVersion.n)
    ELSE IF WantsArm64(f)
         THEN (IF region \in DOMAIN layerVersionsArm64
               THEN layerVersionsArm64[region] ELSE UndefinedArn)
         ELSE (IF region \in DOMAIN layerVersions
               THEN layerVersions[region] ELSE UndefinedArn)

\* the number of invocations completed when the hook has just returned
CompletedRuns == runs + 1

(* C12: once the hook has completed n times on the same descriptor, every  *)
(* enabled function holds n more occurrences of its layer identifier than  *)
(* before the first run, and the policy list n more occurrences of the     *)
(* policy when attachPolicy is true or unset and a function is enabled;    *)
(* within one run a layers list and the policy list gain at most one entry.*)
C12_RepeatedApplication ==
    /\ \A i \in 1..Len(service.functions) :
          Len(LayersOf(service.functions[i])) - Len(LayersOf(before.functions[i]))
             \in {0, 1}
    /\ Len(PoliciesOf(service)) - Len(PoliciesOf(before)) \in {0, 1}
    /\ (pc = "done") =>
          /\ \A i \in 1..Len(service.functions) :
                LET f1 == service.functions[i]
                    f0 == original.functions[i]
                    n == IF EnabledFn(f0) THEN CompletedRuns ELSE 0
                IN /\ Occurrences(LayersOf(f1), LayerIdFor(f0))
                        = Occurrences(LayersOf(f0), LayerIdFor(f0)) + n
                   /\ Len(LayersOf(f1)) = Len(LayersOf(f0)) + n
          /\ LET n == IF AttachPolicyOn /\ EnabledSet # {} THEN CompletedRuns ELSE 0
             IN /\ Occurrences(PoliciesOf(service), lambdaInsightsManagedPolicy)
                     = Occurrences(PoliciesOf(original), lambdaInsightsManagedPolicy) + n
                /\ Len(PoliciesOf(service)) = Len(PoliciesOf(original)) + n

C12_Witness ==
    /\ pc = "done"
    /\ runs = 1
    /\ AttachPolicyOn
    /\ Len(service.functions) = 2
    /\ EnabledSet = {1}
    /\ Occurrences(LayersOf(service.functions[1]), LayerIdFor(original.functions[1])) = 2
    /\ service.functions[2] = original.functions[2]
    /\ Occurrences(PoliciesOf(service), lambdaInsightsManagedPolicy) = 2

IsPrefix(p, q) == Len(p) <= Len(q) /\ SubSeq(q, 1, Len(p)) = p

(* C13: during and after a run, the entries a layers list held before the  *)
(* run are still its first entries, in order, and anything added follows   *)
(* them; a function that is not enabled keeps its layers as they were (an  *)
(* absent list stays absent); the policy list keeps its entries as a       *)
(* prefix; no function is added or removed and no toggle, architecture or  *)
(* custom setting changes.                                                 *)
C13_AppendOnlyFrame ==
    /\ Len(service.functions) = Len(before.functions)
    /\ \A i \in 1..Len(before.functions) :
          LET f0 == before.functions[i]
              f1 == service.functions[i]
          IN /\ f1.lambdaInsights = f0.lambdaInsights
             /\ f1.architecture = f0.architecture
             /\ IsPrefix(LayersOf(f0), LayersOf(f1))
             /\ (f0.hasLayers => f1.hasLayers)
             /\ (f1.hasLayers /\ ~f0.hasLayers => f1.layers # <<>>)
             /\ (~EnabledFn(f0) => f1 = f0)
    /\ IsPrefix(PoliciesOf(before), PoliciesOf(service))
    /\ (before.hasPolicies => service.hasPolicies)
    /\ service.custom = before.custom
    /\ service.architecture = before.architecture
    /\ service.functionsValue = before.functionsValue

C13_Witness ==
    /\ pc = "done"
    /\ Len(service.functions) = 2
    /\ EnabledSet = {1}
    /\ before.functions[1].layers = <<OtherLayer>>
    /\ Len(service.functions[1].layers) = 2
    /\ service.functions[1].layers[1] = OtherLayer
    /\ service.functions[1].layers[2] = LayerIdFor(before.functions[1])
    /\ service.functions[2] = before.functions[2]
    /\ service.iamManagedPolicies = <<OtherPolicy, lambdaInsightsManagedPolicy>>

====
